---------------------------- MODULE Spec2Model ----------------------------
(***************************************************************************)
(* Model of translate_doc.py: merge_paragraphs, translate_paragraph_element *)
(* and the traversal of translate_and_format.                               *)
(*                                                                         *)
(* A text is a sequence of characters.  A character is a one-element       *)
(* string; the non-ASCII ones are written by code point ("U+4E2D").        *)
(* A paragraph node is a record                                            *)
(*     [id, text, kids, box]                                               *)
(* id   : the node's identity (the lxml element)                           *)
(* text : Paragraph.text, the concatenated text of its runs                *)
(* kids : the tags of the element's children, in order (a tag is a         *)
(*        sequence of characters, so that tag.endswith('r') is computed)   *)
(* box  : the text-box content region hanging from one of its runs, or     *)
(*        "none"                                                           *)
(***************************************************************************)
EXTENDS Naturals, Sequences, FiniteSets

VARIABLES
    tree,         \* the document: container -> its paragraph nodes, in order
    pc,           \* "merge", "units", "boxes", "save", "done"
    snap,         \* the snapshot list being iterated (node ids)
    i,            \* the loop's index into snap
    last,         \* last_p of merge_paragraphs (a node id)
    unit,         \* index of the paragraph list, or text box, being processed
    translations, \* what the translator may answer in this run
    calls,        \* history: the translator calls made, in order
    inserted,     \* history: ids of the nodes the inserter created
    nextId,       \* the next fresh node id
    saved,        \* doc.save() was called
    orig,         \* history: the body as loaded
    targets,      \* history: ids of the nodes a merge wrote to
    removeFailed  \* history: ids of the nodes whose removal raised

vars == <<tree, pc, snap, i, last, unit, translations, calls, inserted,
          nextId, saved, orig, targets, removeFailed>>

(***************************************************************************)
(* Characters                                                              *)
(***************************************************************************)
CJK == "U+4E2D"

FullColon == "U+FF1A"

FullStop == "U+3002"

Space == " "

Digits == {"1", "2"}

AsciiChars == {" ", "a", "b", "1", "2", ".", ":", ";", "(", ")", "\""}

\* str.isascii() of a one-character string
IsAscii(c) == c \in AsciiChars

\* the tuple `terminators` of merge_paragraphs
Terminators ==
    {FullStop, "U+FF1F", "U+FF01", FullColon, ":", ";", "U+FF1B", ")",
     "U+FF09", "U+201D", "\""}

\* the characters of text.rstrip('：:')
ColonChars == {FullColon, ":"}

\* len(last_text) < 40
HeaderMaxLen == 40

(***************************************************************************)
(* String functions                                                        *)
(***************************************************************************)
MinOf(S) == CHOOSE x \in S : \A y \in S : x <= y

MaxOf(S) == CHOOSE x \in S : \A y \in S : x >= y

\* number of leading characters of s that lie in C
LeadingCount(s, C) ==
    LET bad == {k \in 1..Len(s) : s[k] \notin C}
    IN  IF bad = {} THEN Len(s) ELSE MinOf(bad) - 1

\* str.lstrip(chars)
LStripChars(s, C) == SubSeq(s, LeadingCount(s, C) + 1, Len(s))

\* str.rstrip(chars)
RStripChars(s, C) ==
    LET keep == {k \in 1..Len(s) : s[k] \notin C}
    IN  IF keep = {} THEN <<>> ELSE SubSeq(s, 1, MaxOf(keep))

LStrip(s) == LStripChars(s, {Space})

RStrip(s) == RStripChars(s, {Space})

Strip(s) == LStrip(RStrip(s))

\* str.endswith(tuple of one-character strings)
EndsWithAny(s, C) == s # <<>> /\ s[Len(s)] \in C

\* bool(re.match(r'^\s*\d+(\.|$)', s)): after the leading whitespace, the
\* longest run of digits is not empty and is followed by a dot or by the
\* end of the text (no text here ends in a line break, the other place
\* where $ matches)
StartsWithNumber(s) ==
    LET t == LStrip(s)
        n == LeadingCount(t, Digits)
    IN  n >= 1 /\ (n = Len(t) \/ t[n + 1] = ".")

\* re.sub(r'^[\d\.]+\s*', '', s)
CleanTranslation(s) ==
    LET n == LeadingCount(s, Digits \cup {"."})
    IN  IF n = 0 THEN s ELSE LStrip(SubSeq(s, n + 1, Len(s)))

(***************************************************************************)
(* Paragraph nodes                                                         *)
(***************************************************************************)
TagR == <<"r">>

TagPPr == <<"p", "P", "r">>

TagProofErr == <<"p", "r", "o", "o", "f", "E", "r", "r">>

TagBookmark == <<"b", "o", "o", "k", "m", "a", "r", "k", "E", "n", "d">>

Para(n, t, k, b) == [id |-> n, text |-> t, kids |-> k, box |-> b]

Ids(ps) == [k \in DOMAIN ps |-> ps[k].id]

IndexOf(ps, n) == CHOOSE k \in DOMAIN ps : ps[k].id = n

Has(ps, n) == \E k \in DOMAIN ps : ps[k].id = n

Node(ps, n) == ps[IndexOf(ps, n)]

\* the setter of Paragraph.text: every child but the properties goes, one
\* run with the new text is added
SetText(p, t) ==
    [p EXCEPT !.text = t,
              !.kids = SelectSeq(p.kids, LAMBDA g : g = TagPPr) \o <<TagR>>,
              !.box = "none"]

\* parent.remove(element)
RemoveNode(ps, n) == SelectSeq(ps, LAMBDA p : p.id # n)

\* parent.insert(k, element): the element becomes the k-th child (1-based)
InsertAt(ps, k, p) == SubSeq(ps, 1, k - 1) \o <<p>> \o SubSeq(ps, k, Len(ps))

(***************************************************************************)
(* merge_paragraphs                                                        *)
(***************************************************************************)
\* the condition of the merge branch, over the two trimmed texts
ShouldMerge(lastText, text) ==
    LET is_terminated == EndsWithAny(lastText, Terminators)
        starts_with_number == StartsWithNumber(text)
        last_is_header ==
            StartsWithNumber(lastText) /\ Len(lastText) < HeaderMaxLen
    IN  ~is_terminated /\ ~starts_with_number /\ ~last_is_header

\* a separator that is always a space
SepAlways(lastText, text) == <<Space>>

\* the separator of a merge
Sep(lastText, text) ==
    IF IsAscii(lastText[Len(lastText)]) /\ IsAscii(text[1])
    THEN <<Space>> ELSE <<>>

\* the text written to last_p by a merge
MergedText(lastRaw, currRaw) ==
    RStrip(lastRaw) \o Sep(Strip(lastRaw), Strip(currRaw)) \o LStrip(Strip(currRaw))

\* a pass that writes the trimmed text back to a paragraph it keeps
NotMergedTrims(ps, lastId, currId) ==
    [body |-> [ps EXCEPT ![IndexOf(ps, currId)].text = Strip(@)],
     last |-> currId, merged |-> FALSE]

\* last_p = curr_p: the paragraph is kept and becomes the one compared
\* against
NotMerged(ps, lastId, currId) ==
    [body |-> ps, last |-> currId, merged |-> FALSE]

\* a merge branch that advances last_p when the removal raises
MergedAdvances(ps, lastId, currId, removeRaises) ==
    LET lastP == Node(ps, lastId)
        written == [ps EXCEPT ![IndexOf(ps, lastId)] =
                       SetText(lastP, MergedText(lastP.text, Node(ps, currId).text))]
    IN  [body |-> IF removeRaises THEN written ELSE RemoveNode(written, currId),
         last |-> IF removeRaises THEN currId ELSE lastId, merged |-> TRUE]

\* the merge branch: the text goes to last_p, then the removal is tried;
\* last_p stays whether or not the removal raises
Merged(ps, lastId, currId, removeRaises) ==
    LET lastP == Node(ps, lastId)
        written == [ps EXCEPT ![IndexOf(ps, lastId)] =
                       SetText(lastP, MergedText(lastP.text, Node(ps, currId).text))]
    IN  [body |-> IF removeRaises THEN written ELSE RemoveNode(written, currId),
         last |-> lastId, merged |-> TRUE]

\* One iteration of the loop of merge_paragraphs on the body's paragraph
\* sequence ps: lastId is last_p, currId is paragraphs[i]; removeRaises says
\* whether getparent().remove() raises.  The result holds the new body, the
\* new last_p and whether the merge branch was taken.
MergeIter(ps, lastId, currId, removeRaises) ==
    LET text == Strip(Node(ps, currId).text)
        last_text == Strip(Node(ps, lastId).text)
    IN  IF text = <<>> THEN NotMerged(ps, lastId, currId)
        ELSE IF last_text = <<>> THEN NotMerged(ps, lastId, currId)
        ELSE IF ShouldMerge(last_text, text)
        THEN Merged(ps, lastId, currId, removeRaises)
        ELSE NotMerged(ps, lastId, currId)

\* the whole loop from index k of the snapshot ids, no removal raising
RECURSIVE MergeLoop(_, _, _, _)
MergeLoop(ps, ids, k, lastId) ==
    IF k > Len(ids) THEN ps
    ELSE LET r == MergeIter(ps, lastId, ids[k], FALSE)
         IN  MergeLoop(r.body, ids, k + 1, r.last)

\* merge_paragraphs as a function of the body
MergePass(ps) == IF ps = <<>> THEN ps ELSE MergeLoop(ps, Ids(ps), 2, ps[1].id)

(***************************************************************************)
(* translate_paragraph_element                                             *)
(***************************************************************************)
\* not child.tag.endswith('r'): the children the copy keeps
KeepInCopy(tag) == tag[Len(tag)] # "r"

\* copy.deepcopy(p_elem) with the filtered children, plus the new run
TranslationNode(p, n, cleaned) ==
    LET kept == SelectSeq(p.kids, KeepInCopy)
        runsLeft == \E k \in DOMAIN kept : kept[k] = TagR
    IN  Para(n, (IF runsLeft THEN p.text ELSE <<>>) \o cleaned,
             kept \o <<TagR>>,
             IF runsLeft THEN p.box ELSE "none")

\* text.endswith('：') or text.endswith(':')
IsHeaderColon(text) == EndsWithAny(text, {FullColon}) \/ EndsWithAny(text, {":"})

\* text.rstrip('：:')
TextToTranslate(text) == RStripChars(text, ColonChars)

\* a gloss that keeps the colon it found in front of the parenthesis
InlineGlossKeepsColon(text_to_translate, translated_text) ==
    text_to_translate \o <<":", "(">> \o translated_text \o <<")">>

\* f"{text_to_translate}({translated_text}):"
InlineGloss(text_to_translate, translated_text) ==
    text_to_translate \o <<"(">> \o translated_text \o <<")", ":">>

\* an insertion at parent.index(p_elem): in front of the original
InsertIndexBefore(ps, n) == IndexOf(ps, n)

\* index at which the new paragraph is inserted: parent.index(p_elem) + 1,
\* 0-based, is the 1-based position IndexOf + 1
InsertIndex(ps, n) == IndexOf(ps, n) + 1

\* The body of the try block after a successful translator call, on the
\* child sequence ps of p's parent: result is the raw result.text, n the
\* identity of the node created.
ApplyTranslation(ps, p, result, n) ==
    LET text == Strip(p.text)
        translated_text == Strip(result)
    IN  IF IsHeaderColon(text)
        THEN [ps EXCEPT ![IndexOf(ps, p.id)] =
                 SetText(p, InlineGloss(TextToTranslate(text), translated_text))]
        ELSE InsertAt(ps, InsertIndex(ps, p.id),
                      TranslationNode(p, n, CleanTranslation(translated_text)))

(***************************************************************************)
(* The document and the traversal of translate_and_format                  *)
(***************************************************************************)
Containers == {"body", "header", "footer", "cell", "tb1", "tb2"}

\* the process_paragraph_list calls, in order
Units == <<"body", "header", "footer", "cell">>

\* body.iter(qn('w:txbxContent')): the content regions in document order
Boxes == <<"tb1", "tb2">>

\* the container holding node n
Where(n) == CHOOSE c \in Containers : Has(tree[c], n)

\* list(txbx.iter(qn('w:p'))): every paragraph below the region, in
\* document order, those of the regions nested in it included
RECURSIVE Descendants(_, _)
Descendants(t, c) ==
    LET RECURSIVE Walk(_)
        Walk(k) ==
            IF k > Len(t[c]) THEN <<>>
            ELSE <<t[c][k].id>>
                 \o (IF t[c][k].box = "none" THEN <<>>
                     ELSE Descendants(t, t[c][k].box))
                 \o Walk(k + 1)
    IN  Walk(1)

\* a guard that forgets to trim
HasTextUntrimmed(p) == p.text # <<>>

\* if p.text.strip(): the guard in front of every call of
\* translate_paragraph_element (and its own early return)
HasText(p) == Strip(p.text) # <<>>

\* the loop goes on to its next element
Continue ==
    /\ i' = i + 1
    /\ UNCHANGED <<pc, snap, unit>>

\* a failure that is not caught: the run ends there, nothing is saved
ExceptClauseAborts ==
    /\ UNCHANGED <<tree, inserted, nextId, snap, unit, i>>
    /\ pc' = "done"

\* except Exception: the failure is printed, nothing else happens
ExceptClause ==
    /\ UNCHANGED <<tree, inserted, nextId>>
    /\ Continue

\* the record of one translator call
Call(p, ok, result) ==
    [id |-> p.id, text |-> TextToTranslate(Strip(p.text)), ok |-> ok,
     result |-> result]

\* One iteration of a loop that hands snap[i] to translate_paragraph_element.
VisitParagraph ==
    LET n == snap[i]
        c == Where(n)
        p == Node(tree[c], n)
    IN  /\ UNCHANGED <<last, translations, saved, orig, targets, removeFailed>>
        /\ \/ /\ ~HasText(p)
              /\ UNCHANGED <<tree, calls, inserted, nextId>>
              /\ Continue
           \/ /\ HasText(p)
              \* translator.translate raises
              /\ calls' = Append(calls, Call(p, FALSE, <<>>))
              /\ ExceptClause
           \/ /\ HasText(p)
              /\ \E result \in translations :
                    /\ tree' = [tree EXCEPT ![c] =
                                   ApplyTranslation(tree[c], p, result, nextId)]
                    /\ calls' = Append(calls, Call(p, TRUE, result))
              /\ inserted' = IF IsHeaderColon(Strip(p.text)) THEN inserted
                             ELSE inserted \cup {nextId}
              /\ nextId' = IF IsHeaderColon(Strip(p.text)) THEN nextId
                           ELSE nextId + 1
              /\ Continue

\* one iteration of the loop of merge_paragraphs
MergeStep ==
    /\ pc = "merge"
    /\ snap # <<>>
    /\ i <= Len(snap)
    /\ \E removeRaises \in BOOLEAN :
          LET r == MergeIter(tree["body"], last, snap[i], removeRaises)
          IN  /\ tree' = [tree EXCEPT !["body"] = r.body]
              /\ last' = r.last
              /\ targets' = IF r.merged THEN targets \cup {last} ELSE targets
              /\ removeFailed' = IF r.merged /\ removeRaises
                                 THEN removeFailed \cup {snap[i]}
                                 ELSE removeFailed
    /\ i' = i + 1
    /\ UNCHANGED <<pc, snap, unit, translations, calls, inserted, nextId,
                   saved, orig>>

\* merge_paragraphs returns; process_paragraph_list(doc.paragraphs) takes
\* its snapshot
MergeReturn ==
    /\ pc = "merge"
    /\ snap = <<>> \/ i > Len(snap)
    /\ pc' = "units"
    /\ unit' = 1
    /\ snap' = Ids(tree[Units[1]])
    /\ i' = 1
    /\ UNCHANGED <<tree, last, translations, calls, inserted, nextId, saved,
                   orig, targets, removeFailed>>

\* one iteration of the loop of process_paragraph_list
ProcessParagraph ==
    /\ pc = "units"
    /\ i <= Len(snap)
    /\ VisitParagraph

\* a paragraph list is done: the next one, or the text boxes
NextUnit ==
    /\ pc = "units"
    /\ i > Len(snap)
    /\ i' = 1
    /\ \/ /\ unit < Len(Units)
          /\ unit' = unit + 1
          /\ snap' = Ids(tree[Units[unit + 1]])
          /\ pc' = pc
       \/ /\ unit = Len(Units)
          /\ unit' = 1
          /\ snap' = Descendants(tree, Boxes[1])
          /\ pc' = "boxes"
    /\ UNCHANGED <<tree, last, translations, calls, inserted, nextId, saved,
                   orig, targets, removeFailed>>

\* one iteration of the loop over the paragraphs of a text box
BoxParagraph ==
    /\ pc = "boxes"
    /\ i <= Len(snap)
    /\ VisitParagraph

\* a text box is done: the next one, or the save
NextBox ==
    /\ pc = "boxes"
    /\ i > Len(snap)
    /\ i' = 1
    /\ \/ /\ unit < Len(Boxes)
          /\ unit' = unit + 1
          /\ snap' = Descendants(tree, Boxes[unit + 1])
          /\ pc' = pc
       \/ /\ unit = Len(Boxes)
          /\ unit' = unit
          /\ snap' = <<>>
          /\ pc' = "save"
    /\ UNCHANGED <<tree, last, translations, calls, inserted, nextId, saved,
                   orig, targets, removeFailed>>

\* doc.save(output_path)
Save ==
    /\ pc = "save"
    /\ saved' = TRUE
    /\ pc' = "done"
    /\ UNCHANGED <<tree, snap, i, last, unit, translations, calls, inserted,
                   nextId, orig, targets, removeFailed>>

(***************************************************************************)
(* Documents the runs start from                                           *)
(***************************************************************************)
\* longest body of a merge run, of a whole run, of a run of the inserter
MaxBody == 3

MaxRunBody == 2

MaxElemParas == 2

TxtBlank == <<" ">>

TxtA == <<"a">>

TxtZh == <<CJK>>

TxtPadded == <<" ", "a", " ">>

TxtLabel == <<"a", ":">>

TxtZhLabel == <<CJK, FullColon>>

TxtSpacedLabel == <<"a", " ", ":">>

TxtColons == <<" ", "a", ":", FullColon>>

TxtItem == <<"1", ".", "a">>

\* a paragraph of digits only, as long as the heading limit
TxtDigits == [k \in 1..HeaderMaxLen |-> "1"]

MergePool == {TxtBlank, TxtA, TxtZh, TxtPadded, TxtLabel, TxtItem, TxtDigits}

RunPool == {TxtBlank, TxtA, TxtLabel}

ElemPool ==
    {TxtBlank, TxtPadded, TxtSpacedLabel, TxtZhLabel, TxtColons, TxtItem}

PlainKids == <<TagPPr, TagR>>

KidPool == {PlainKids, <<TagPPr, TagBookmark, TagR, TagProofErr, TagR>>}

\* what result.text may be
RunAnswers == {<<"b">>}

ElemAnswers ==
    {<<"b">>, <<" ", "b", " ">>, <<"2", ".", " ", "b">>, <<"2", "b">>,
     <<"1", ".", "2", " ", "b">>}

\* the bodies of at most max paragraphs with texts from pool, kids from kp
Bodies(pool, kp, max) ==
    UNION {{[k \in 1..n |-> Para(k, f[k][1], f[k][2], "none")] :
              f \in [1..n -> pool \X kp]} : n \in 0..max}

\* the state in which merge_paragraphs starts its loop on document t
Loaded(t) ==
    /\ tree = t
    /\ pc = "merge"
    /\ snap = Ids(t["body"])
    /\ i = 2
    /\ last = IF t["body"] = <<>> THEN 0 ELSE t["body"][1].id
    /\ unit = 0
    /\ calls = <<>>
    /\ inserted = {}
    /\ nextId = 201
    /\ saved = FALSE
    /\ orig = t["body"]
    /\ targets = {}
    /\ removeFailed = {}

Leaf(n, t) == Para(n, t, PlainKids, "none")

\* A whole document: a body, one section with a header and a footer, one
\* table cell, and two text boxes, the second either nested in a paragraph
\* of the first or standing beside it.  A paragraph that anchors a text box
\* has no text of its own, so neither pass ever rewrites or copies it.
Init ==
    \E b \in Bodies(RunPool, {PlainKids}, MaxRunBody), nested \in BOOLEAN,
       t \in {TxtA, TxtLabel} :
        /\ Loaded([c \in Containers |->
              CASE c = "body" -> b
                [] c = "header" -> <<Leaf(101, TxtLabel)>>
                [] c = "footer" -> <<Leaf(102, TxtBlank)>>
                [] c = "cell" -> <<Leaf(103, TxtA)>>
                [] c = "tb1" -> IF nested
                                THEN <<Leaf(104, TxtA), Para(105, <<>>, PlainKids, "tb2")>>
                                ELSE <<Leaf(104, TxtA)>>
                [] c = "tb2" -> <<Leaf(106, t)>>])
        /\ translations = RunAnswers

Next ==
    \/ MergeStep
    \/ MergeReturn
    \/ ProcessParagraph
    \/ NextUnit
    \/ BoxParagraph
    \/ NextBox
    \/ Save

Spec == Init /\ [][Next]_vars

\* merge_paragraphs alone, on a body only
InitMerge ==
    \E b \in Bodies(MergePool, {PlainKids}, MaxBody) :
        /\ Loaded([c \in Containers |-> IF c = "body" THEN b ELSE <<>>])
        /\ translations = {}

NextMerge == MergeStep \/ MergeReturn

SpecMerge == InitMerge /\ [][NextMerge]_vars

\* process_paragraph_list(doc.paragraphs) alone: the state MergeReturn
\* leaves on a body that merge_paragraphs returns as it is
InitElem ==
    \E b \in Bodies(ElemPool, KidPool, MaxElemParas) :
        /\ b # <<>>
        /\ MergePass(b) = b
        /\ tree = [c \in Containers |-> IF c = "body" THEN b ELSE <<>>]
        /\ pc = "units"
        /\ snap = Ids(b)
        /\ i = 1
        /\ last = b[Len(b)].id
        /\ unit = 1
        /\ translations = ElemAnswers
        /\ calls = <<>>
        /\ inserted = {}
        /\ nextId = 201
        /\ saved = FALSE
        /\ orig = b
        /\ targets = {}
        /\ removeFailed = {}

NextElem == ProcessParagraph

SpecElem == InitElem /\ [][NextElem]_vars

(***************************************************************************)
(* Properties of merge_paragraphs (SpecMerge)                              *)
(***************************************************************************)
\* the loop of merge_paragraphs is about to compare A (last_p) with B
AtMergeStep == pc = "merge" /\ snap # <<>> /\ i <= Len(snap)

MergeA == Node(tree["body"], last)

MergeB == Node(tree["body"], snap[i])

\* the premise of C1 on the pair (A, B), over the trimmed texts
IsContinuation(a, b) ==
    /\ ~(a # <<>> /\ a[Len(a)] \in Terminators)
    /\ ~StartsWithNumber(b)
    /\ ~(StartsWithNumber(a) /\ Len(a) < HeaderMaxLen)

\* a single space iff both join points, the last character of a and the
\* first of b, are ASCII
JoinSpace(a, b) ==
    IF a[Len(a)] \in AsciiChars /\ b[1] \in AsciiChars THEN <<" ">> ELSE <<>>

\* the removal of B raised in this step
RemovalRaised == removeFailed' # removeFailed

\* C1 as stated, read for two paragraphs that have text and a removal that
\* does not raise, the join points being those of the trimmed texts: when A
\* lacks a terminator, B does not start with a numeric marker and A is not
\* a short numbered heading, the step leaves A holding A's text, the space
\* iff both join points are ASCII, and B's text, and B is gone.
C1_Original ==
    [][(/\ AtMergeStep
        /\ Strip(MergeA.text) # <<>>
        /\ Strip(MergeB.text) # <<>>
        /\ IsContinuation(Strip(MergeA.text), Strip(MergeB.text))
        /\ ~RemovalRaised)
       => /\ Has(tree'["body"], last)
          /\ Node(tree'["body"], last).text =
                MergeA.text
                \o JoinSpace(Strip(MergeA.text), Strip(MergeB.text))
                \o MergeB.text
          /\ ~Has(tree'["body"], snap[i])]_vars

\* C1, amended: for A and B that both have text, under the same three
\* conditions, the step leaves A holding A's text without its trailing
\* whitespace, the space iff the last character of A's trimmed text and the
\* first of B's trimmed text are both ASCII, and B's trimmed text; B is gone
\* from the body unless its removal raised, and then B is still there.
C1_MergePair ==
    [][(/\ AtMergeStep
        /\ Strip(MergeA.text) # <<>>
        /\ Strip(MergeB.text) # <<>>
        /\ IsContinuation(Strip(MergeA.text), Strip(MergeB.text)))
       => /\ Has(tree'["body"], last)
          /\ Node(tree'["body"], last).text =
                RStrip(MergeA.text)
                \o JoinSpace(Strip(MergeA.text), Strip(MergeB.text))
                \o Strip(MergeB.text)
          /\ Has(tree'["body"], snap[i]) <=> RemovalRaised]_vars

\* a padded " a " took in "a": one space at the join, none of the padding
C1_Witness ==
    /\ removeFailed = {}
    /\ Len(tree["body"]) < Len(orig)
    /\ \E k \in DOMAIN tree["body"] :
          /\ tree["body"][k].id \in targets
          /\ Node(orig, tree["body"][k].id).text = TxtPadded
          /\ tree["body"][k].text = <<" ", "a", " ", "a">>

\* C2: merge_paragraphs is idempotent: when no removal raised, a second
\* pass over the body the first pass returned changes nothing.
C2_Idempotent ==
    (pc = "units" /\ removeFailed = {})
        => MergePass(tree["body"]) = tree["body"]

\* ids is an order-preserving subsequence of the ids of ps
IsSubsequence(ids, ps) ==
    /\ \A k \in DOMAIN ids : Has(ps, ids[k])
    /\ \A j, k \in DOMAIN ids :
          j < k => IndexOf(ps, ids[j]) < IndexOf(ps, ids[k])

\* C8: throughout and after the pass the body is an order-preserving
\* subsequence of the loaded body, and every paragraph in it that no merge
\* wrote to is the loaded node, text included.
C8_Frame ==
    pc \in {"merge", "units"} =>
        /\ IsSubsequence(Ids(tree["body"]), orig)
        /\ \A k \in DOMAIN tree["body"] :
              tree["body"][k].id \notin targets
                  => tree["body"][k] = Node(orig, tree["body"][k].id)

\* a pass that merged the second paragraph into the first and kept the
\* third, which has text and was not written to
C8_Witness ==
    /\ pc = "units"
    /\ Len(orig) = 3
    /\ Ids(tree["body"]) = <<orig[1].id, orig[3].id>>
    /\ targets = {orig[1].id}
    /\ Strip(orig[3].text) # <<>>

\* C9 as stated: when the removal of B raises, the pass goes on, B stays in
\* the body with its own text, and B becomes the last retained paragraph.
C9_Original ==
    [][(AtMergeStep /\ RemovalRaised)
       => /\ pc' = "merge" /\ i' = i + 1
          /\ Has(tree'["body"], snap[i])
          /\ Node(tree'["body"], snap[i]) = MergeB
          /\ last' = snap[i]]_vars

\* C9, amended: when the removal of B raises, the pass goes on, B stays in
\* the body with its own text, but A remains the last retained paragraph,
\* already holding B's text appended, and the following paragraphs are
\* compared against A.
C9_RemovalRaises ==
    [][(AtMergeStep /\ RemovalRaised)
       => /\ pc' = "merge" /\ i' = i + 1
          /\ Has(tree'["body"], snap[i])
          /\ Node(tree'["body"], snap[i]) = MergeB
          /\ last' = last
          /\ Node(tree'["body"], last).text =
                RStrip(MergeA.text)
                \o JoinSpace(Strip(MergeA.text), Strip(MergeB.text))
                \o Strip(MergeB.text)]_vars

\* a removal raised on the second paragraph and the pass went on to merge
\* the third into the first
C9_Witness ==
    /\ pc = "units"
    /\ Len(orig) = 3
    /\ removeFailed = {orig[2].id}
    /\ Ids(tree["body"]) = <<orig[1].id, orig[2].id>>
    /\ last = orig[1].id

(***************************************************************************)
(* Properties of translate_paragraph_element (SpecElem)                    *)
(***************************************************************************)
\* a loop is about to hand snap[i] to translate_paragraph_element
AtVisit == pc \in {"units", "boxes"} /\ i <= Len(snap)

Visited == Node(tree[Where(snap[i])], snap[i])

Siblings == tree[Where(snap[i])]

SiblingsAfter == tree'[Where(snap[i])]

\* this step made a translator call, and the call succeeded
Answered == calls' # calls /\ calls'[Len(calls')].ok

\* this step made a translator call, and the call raised
Raised == calls' # calls /\ ~calls'[Len(calls')].ok

\* the translator's answer in this step, trimmed
Answer == Strip(calls'[Len(calls')].result)

EndsInColon(t) == t # <<>> /\ (t[Len(t)] = ":" \/ t[Len(t)] = FullColon)

\* t without its last character
Chop(t) == SubSeq(t, 1, Len(t) - 1)

\* t without the colons it ends in
RECURSIVE ChopColons(_)
ChopColons(t) == IF EndsInColon(t) THEN ChopColons(Chop(t)) ELSE t

\* C4 as stated, read over the trimmed texts: a paragraph whose trimmed
\* text ends in a colon reads, after a successful translation, as its
\* text without that one trailing colon, "(", the translation, "):", and
\* its parent holds the same nodes.
C4_Original ==
    [][(AtVisit /\ EndsInColon(Strip(Visited.text)) /\ Answered)
       => /\ Node(SiblingsAfter, snap[i]).text =
                Chop(Strip(Visited.text)) \o <<"(">> \o Answer \o <<")", ":">>
          /\ Ids(SiblingsAfter) = Ids(Siblings)]_vars

\* C4, amended: such a paragraph reads, after a successful translation, as
\* its trimmed text without all the full-width or ASCII colons it ends in,
\* "(", the trimmed translation, "):", and its parent holds the same nodes.
C4_InlineGloss ==
    [][(AtVisit /\ EndsInColon(Strip(Visited.text)) /\ Answered)
       => /\ Node(SiblingsAfter, snap[i]).text =
                ChopColons(Strip(Visited.text)) \o <<"(">> \o Answer \o <<")", ":">>
          /\ Ids(SiblingsAfter) = Ids(Siblings)]_vars

\* " a:" followed by a full-width colon was glossed with a padded answer
C4_Witness ==
    /\ pc = "units"
    /\ \E k \in DOMAIN orig :
          /\ orig[k].text = TxtColons
          /\ Node(tree["body"], orig[k].id).text = <<"a", "(", "b", ")", ":">>
    /\ \E k \in DOMAIN calls : calls[k].ok /\ calls[k].result = <<" ", "b", " ">>
    /\ inserted = {}

\* t without a leading digits or digits-plus-dot marker, and without the
\* whitespace after the marker
NoEnumPrefix(t) ==
    LET n == LeadingCount(t, Digits)
    IN  IF n = 0 THEN t
        ELSE IF n < Len(t) /\ t[n + 1] = "."
        THEN LStrip(SubSeq(t, n + 2, Len(t)))
        ELSE LStrip(SubSeq(t, n + 1, Len(t)))

\* t without its longest leading run of digits and dots, and, when there
\* is such a run, without the whitespace after it
RECURSIVE NoNumbering(_)
NoNumbering(t) ==
    IF t # <<>> /\ t[1] \in Digits \cup {"."}
    THEN LET rest == NoNumbering(Tail(t))
         IN  IF rest # <<>> /\ rest[1] = Space THEN LStrip(rest) ELSE rest
    ELSE t

\* the effect C5 describes, the inserted text being clean(answer)
InsertsAfter(clean(_)) ==
    LET k == IndexOf(Siblings, snap[i])
    IN  /\ Len(SiblingsAfter) = Len(Siblings) + 1
        /\ SiblingsAfter[k] = Visited
        /\ SiblingsAfter[k + 1].id \notin {Siblings[j].id : j \in DOMAIN Siblings}
        /\ SiblingsAfter[k + 1].text = clean(Answer)
        /\ \A j \in DOMAIN Siblings :
              /\ j < k => SiblingsAfter[j] = Siblings[j]
              /\ j > k => SiblingsAfter[j + 1] = Siblings[j]

\* C5 as stated, read over the trimmed translation: for a paragraph with
\* text not ending in a colon, a successful translation adds one node to
\* the parent, right after the original, which is unchanged; the new text
\* is the translation without a leading digits or digits-plus-dot marker.
C5_Original ==
    [][(/\ AtVisit
        /\ Strip(Visited.text) # <<>>
        /\ ~EndsInColon(Strip(Visited.text))
        /\ Answered)
       => InsertsAfter(NoEnumPrefix)]_vars

\* C5, amended: the new paragraph's text is the trimmed translation
\* without its longest leading run of digit and dot characters and the
\* whitespace that follows that run.
C5_InsertedSibling ==
    [][(/\ AtVisit
        /\ Strip(Visited.text) # <<>>
        /\ ~EndsInColon(Strip(Visited.text))
        /\ Answered)
       => InsertsAfter(NoNumbering)]_vars

\* "1.2 b" was inserted as "b" right after the first of two paragraphs
C5_Witness ==
    /\ Len(orig) = 2
    /\ Len(tree["body"]) >= 3
    /\ tree["body"][1] = orig[1]
    /\ tree["body"][2].id \in inserted
    /\ tree["body"][2].text = <<"b">>
    /\ calls[1].ok /\ calls[1].result = <<"1", ".", "2", " ", "b">>

\* the children of a node that are not text runs
NonRuns(kids) == SelectSeq(kids, LAMBDA g : g # TagR)

\* C6: the node inserted for a translation keeps every child of the
\* original that is not a text run, the formatting properties among them,
\* and ends with exactly one new run.
C6_KeepsFormatting ==
    [][(/\ AtVisit
        /\ Strip(Visited.text) # <<>>
        /\ ~EndsInColon(Strip(Visited.text))
        /\ Answered)
       => LET new == SiblingsAfter[IndexOf(Siblings, snap[i]) + 1]
          IN  new.kids = NonRuns(Visited.kids) \o <<TagR>>]_vars

(***************************************************************************)
(* Properties of a whole run of translate_and_format (Spec)                *)
(***************************************************************************)
\* the paragraph has no text once trimmed
IsBlank(p) == \A k \in DOMAIN p.text : p.text[k] = " "

\* what both passes do with a blank paragraph, newLast being the last
\* retained paragraph after the merger met it
SkipsBlank(newLast) ==
    /\ (AtMergeStep /\ IsBlank(MergeB))
          => (tree' = tree /\ targets' = targets /\ last' = newLast)
    /\ (AtMergeStep /\ IsBlank(MergeA)) => (tree' = tree /\ targets' = targets)
    /\ (AtVisit /\ IsBlank(Visited))
          => (tree' = tree /\ calls' = calls /\ inserted' = inserted)

\* C3 as stated: a blank paragraph is skipped by both passes: the merger
\* meeting it leaves the last retained paragraph as it was, nothing is
\* merged into or out of it, and the inserter makes no call and adds no
\* node for it.
C3_Original == [][SkipsBlank(last)]_vars

\* C3, amended: the merger meeting a blank paragraph makes that paragraph
\* the last retained one (so nothing is merged across it); nothing is
\* merged into or out of it, and the inserter makes no call and adds no
\* node for it.
C3_BlankSkipped == [][SkipsBlank(snap[i])]_vars

\* a run that ended with a blank second body paragraph, which the merger
\* made its last retained paragraph and the inserter passed over
C3_Witness ==
    /\ pc = "done"
    /\ Len(orig) = 2
    /\ ~IsBlank(orig[1]) /\ IsBlank(orig[2])
    /\ last = orig[2].id
    /\ tree["body"][Len(tree["body"])] = orig[2]
    /\ \E k \in DOMAIN calls : calls[k].id = orig[1].id
    /\ \A k \in DOMAIN calls : calls[k].id # orig[2].id

\* every node of the document
AllNodes == UNION {{tree[c][k] : k \in DOMAIN tree[c]} : c \in Containers}

Submitted(n) == \E k \in DOMAIN calls : calls[k].id = n

\* C7: a translator call that raises leaves the paragraph and its parent's
\* children as they were and the loop goes on to its next element; at the
\* end of the run the document was saved and every paragraph with text
\* that is not itself an inserted translation was submitted, whatever
\* calls raised before it.
C7_FailureSkipped ==
    /\ [][(AtVisit /\ Raised)
          => /\ tree' = tree
             /\ pc' = pc /\ snap' = snap /\ unit' = unit /\ i' = i + 1]_vars
    /\ [](pc = "done" =>
            /\ saved
            /\ \A p \in AllNodes :
                  (~IsBlank(p) /\ p.id \notin inserted) => Submitted(p.id))

\* a saved run in which a call raised and a later call, for another
\* paragraph, was answered; the paragraph of the failed call has no
\* translation
C7_Witness ==
    /\ pc = "done"
    /\ saved
    /\ \E j, k \in DOMAIN calls :
          /\ j < k
          /\ ~calls[j].ok /\ calls[k].ok
          /\ calls[j].id # calls[k].id
          /\ calls[j].id = 103
          /\ tree["cell"] = <<Leaf(103, TxtA)>>

\* C10, for the runs in which no translator call raised: no paragraph is
\* submitted twice, no paragraph the inserter created is submitted, and at
\* the end every paragraph with text that stood in the document after the
\* merge pass was submitted.
C10_ExactlyOnce ==
    (\A k \in DOMAIN calls : calls[k].ok) =>
        /\ \A j, k \in DOMAIN calls : j # k => calls[j].id # calls[k].id
        /\ \A k \in DOMAIN calls : calls[k].id \notin inserted
        /\ pc = "done" =>
              \A p \in AllNodes :
                  (~IsBlank(p) /\ p.id \notin inserted) => Submitted(p.id)

=============================================================================
